---- MODULE Spec2Model ----
(***************************************************************************)
(* scripts/embed_builtins.py: the build-time generator that embeds the     *)
(* .sl/.swz files of lib/ into a generated C++ source.                      *)
(*                                                                         *)
(* Text is a sequence of code points, a file on disk a sequence of bytes.  *)
(* Code points below 128 are their own UTF-8 byte; U+FFFD is the only      *)
(* other code point the model's inputs can produce.  The platform is       *)
(* POSIX: os.linesep is "\n", path comparison is case-sensitive.           *)
(***************************************************************************)
EXTENDS Integers, Sequences, FiniteSets, TLC

(* ------------------------------ bounds -------------------------------- *)
\* longest content string handed to cpp_escape
MaxLen == 5
\* most files under lib/
MaxFiles == 2

(* ---------------------------- characters ------------------------------ *)
LF == 10
CR == 13
QUOTE == 34
BSL == 92
LowerN == 110
SPACE == 32
\* U+FFFD, what errors='replace' decodes an invalid byte to
REPLACEMENT == 65533

(* --------------------------- str operations --------------------------- *)
RECURSIVE JoinRange(_, _, _)
\* parts[lo] .. parts[hi] concatenated, by halves
JoinRange(parts, lo, hi) ==
  IF lo > hi THEN <<>>
  ELSE IF lo = hi THEN parts[lo]
  ELSE LET mid == (lo + hi) \div 2
       IN  JoinRange(parts, lo, mid) \o JoinRange(parts, mid + 1, hi)

\* the element of a one-element set; {e(v) : v \in {x}} computes x once
\* however often e uses it
TheOnly(S) == CHOOSE x \in S : TRUE

\* ''.join(parts)
Join(parts) == TheOnly({JoinRange(v, 1, Len(v)) : v \in {parts}})

\* str.replace(old, new) for a one-character old
Replace(str, old, new) ==
  TheOnly({Join([i \in DOMAIN v |-> IF v[i] = old THEN new ELSE <<v[i]>>]) : v \in {str}})

\* str.endswith(suffix)
EndsWith(str, suffix) ==
  /\ Len(str) >= Len(suffix)
  /\ SubSeq(str, Len(str) - Len(suffix) + 1, Len(str)) = suffix

\* the positions of ch in str
Positions(str, ch) == {i \in 1..Len(str) : str[i] = ch}

\* max of a non-empty set of integers
Max(S) == CHOOSE m \in S : \A x \in S : x <= m

RECURSIVE StrLess(_, _)
\* Python's str.__lt__: lexicographic by code point
StrLess(a, b) ==
  IF b = <<>> THEN FALSE
  ELSE IF a = <<>> THEN TRUE
  ELSE IF Head(a) # Head(b) THEN Head(a) < Head(b)
  ELSE StrLess(Tail(a), Tail(b))

(* ----------------------------- cpp_escape ----------------------------- *)
\* cpp_escape with the quote escaped before the backslash
cpp_escape_quote_first(str) ==
  LET s1 == Replace(str, QUOTE, <<BSL, QUOTE>>)
      s2 == Replace(s1, BSL, <<BSL, BSL>>)
      s3 == Replace(s2, CR, <<>>)
  IN  Replace(s3, LF, <<BSL, LowerN, QUOTE, LF, QUOTE>>)

cpp_escape(str) ==
  LET s1 == Replace(str, BSL, <<BSL, BSL>>)
      s2 == Replace(s1, QUOTE, <<BSL, QUOTE>>)
      s3 == Replace(s2, CR, <<>>)
  IN  Replace(s3, LF, <<BSL, LowerN, QUOTE, LF, QUOTE>>)

(* ------------- the host language's reading of string literals --------- *)
\* what a text that is no sequence of well-formed literals decodes to
Malformed == <<-1>>

RECURSIVE DecodeFrom(_, _, _, _)
\* Adjacent string literals, separated by white space, are concatenated;
\* inside a literal \\ is a backslash, \" a quote and \n a line feed; a raw
\* line break inside a literal, an unknown escape or an unclosed literal is
\* malformed.
DecodeFrom(text, i, inLiteral, acc) ==
  IF i > Len(text) THEN (IF inLiteral THEN Malformed ELSE acc)
  ELSE LET c == text[i] IN
    IF ~inLiteral THEN
      IF c = QUOTE THEN DecodeFrom(text, i + 1, TRUE, acc)
      ELSE IF c \in {LF, CR, SPACE} THEN DecodeFrom(text, i + 1, FALSE, acc)
      ELSE Malformed
    ELSE
      IF c = QUOTE THEN DecodeFrom(text, i + 1, FALSE, acc)
      ELSE IF c \in {LF, CR} THEN Malformed
      ELSE IF c = BSL THEN
        IF i + 1 > Len(text) THEN Malformed
        ELSE IF text[i + 1] = BSL THEN DecodeFrom(text, i + 2, TRUE, Append(acc, BSL))
        ELSE IF text[i + 1] = QUOTE THEN DecodeFrom(text, i + 2, TRUE, Append(acc, QUOTE))
        ELSE IF text[i + 1] = LowerN THEN DecodeFrom(text, i + 2, TRUE, Append(acc, LF))
        ELSE Malformed
      ELSE DecodeFrom(text, i + 1, TRUE, Append(acc, c))

\* the value of the literal(s) emitted as "{esc}"
CppDecode(esc) == DecodeFrom(<<QUOTE>> \o esc \o <<QUOTE>>, 1, FALSE, <<>>)

(* ------------------------- the tree under lib/ ------------------------ *)
DOT == 46
SLASH == 47
COLON == 58

\* '.sl' and '.swz'
ExtSl == <<DOT, 115, 108>>
ExtSwz == <<DOT, 115, 119, 122>>
\* 'swazi:'
SwaziTag == <<115, 119, 97, 122, 105, COLON>>

\* A path relative to lib_dir is the sequence of its components (pathlib's
\* parts).  The files a tree may hold:
\*   f.sl  f.swz  f.sl.sl  a/b.sl  a.b/c.sl  t.txt  q<CR>.sl
Universe ==
  { << <<102>> \o ExtSl >>,
    << <<102>> \o ExtSwz >>,
    << <<102>> \o ExtSl \o ExtSl >>,
    << <<97>>, <<98>> \o ExtSl >>,
    << <<97, DOT, 98>>, <<99>> \o ExtSl >>,
    << <<116, DOT, 116, 120, 116>> >>,
    << <<113, CR>> \o ExtSl >> }

\* What a file may hold on disk:  x  |  y CR LF "  |  \ CR <invalid byte>
Contents ==
  { <<120>>,
    <<121, CR, LF, QUOTE>>,
    <<BSL, CR, 255>> }

\* every tree of at most MaxFiles files: path -> bytes
Trees ==
  UNION { [files -> Contents] :
          files \in {F \in SUBSET Universe : Cardinality(F) <= MaxFiles} }

\* the directories a tree's files lie in
DirsOf(t) == UNION {{SubSeq(p, 1, k) : k \in 1..(Len(p) - 1)} : p \in DOMAIN t}

\* everything lib_dir.rglob('*') yields: the files and the directories
Entries(t) == DOMAIN t \cup DirsOf(t)

\* the orders in which the operating system may enumerate a set of entries
Orders(S) ==
  {o \in [1..Cardinality(S) -> S] : \A i, j \in DOMAIN o : i # j => o[i] # o[j]}

(* ------------------------------ pathlib ------------------------------- *)
\* PurePath.name
Name(p) == p[Len(p)]

\* PurePath.suffix: from the last dot of the name, unless the name starts
\* or ends with that dot
Suffix(p) ==
  LET name == Name(p)
      dots == Positions(name, DOT)
  IN  IF dots = {} THEN <<>>
      ELSE LET i == Max(dots)
           IN  IF 1 < i /\ i < Len(name) THEN SubSeq(name, i, Len(name)) ELSE <<>>

RECURSIVE AsPosix(_)
\* p.relative_to(lib_dir).as_posix()
AsPosix(p) ==
  IF Len(p) = 1 THEN p[1] ELSE p[1] \o <<SLASH>> \o AsPosix(Tail(p))

\* paths compared as their as_posix() strings instead of part by part
PathLessByString(p, q) == StrLess(AsPosix(p), AsPosix(q))

RECURSIVE PathLess(_, _)
\* PurePath.__lt__: the parts compared as a list of str
PathLess(p, q) ==
  IF q = <<>> THEN FALSE
  ELSE IF p = <<>> THEN TRUE
  ELSE IF Head(p) # Head(q) THEN StrLess(Head(p), Head(q))
  ELSE PathLess(Tail(p), Tail(q))

RECURSIVE InsertSorted(_, _)
InsertSorted(p, seq) ==
  IF seq = <<>> THEN <<p>>
  ELSE IF PathLess(p, Head(seq)) THEN <<p>> \o seq
  ELSE <<Head(seq)>> \o InsertSorted(p, Tail(seq))

RECURSIVE SortedFrom(_, _)
SortedFrom(seq, acc) ==
  IF seq = <<>> THEN acc ELSE SortedFrom(Tail(seq), InsertSorted(Head(seq), acc))

\* sorted(...) of the enumerated paths
sorted(seq) == SortedFrom(seq, <<>>)

(* ------------------------- text files on disk ------------------------- *)
\* U+FFFD in UTF-8
ReplacementBytes == <<239, 191, 189>>

\* whether bytes[i..] starts with U+FFFD's encoding
AtReplacement(bytes, i) ==
  i + 2 <= Len(bytes) /\ SubSeq(bytes, i, i + 2) = ReplacementBytes

\* whether bytes[i] is the second or third byte of U+FFFD's encoding
InReplacement(bytes, i) ==
  \/ i >= 2 /\ AtReplacement(bytes, i - 1)
  \/ i >= 3 /\ AtReplacement(bytes, i - 2)

\* whether strict UTF-8 decoding succeeds: every byte is ASCII or part of
\* an encoded U+FFFD
ValidUtf8(bytes) ==
  \A v \in {bytes} : \A i \in DOMAIN v :
    v[i] < 128 \/ AtReplacement(v, i) \/ InReplacement(v, i)

\* bytes.decode('utf-8', errors='replace'); the same as the strict decoding
\* where that succeeds
DecodeUtf8(bytes) ==
  TheOnly({Join([i \in DOMAIN v |->
                   IF v[i] < 128 THEN <<v[i]>>
                   ELSE IF AtReplacement(v, i) THEN <<REPLACEMENT>>
                   ELSE IF InReplacement(v, i) THEN <<>>
                   ELSE <<REPLACEMENT>>]) : v \in {bytes}})

\* text mode with newline=None on reading: CR LF and a lone CR become LF
UniversalNewlines(text) ==
  TheOnly({Join([i \in DOMAIN v |->
                   IF v[i] = CR THEN <<LF>>
                   ELSE IF v[i] = LF /\ i > 1 /\ v[i - 1] = CR THEN <<>>
                   ELSE <<v[i]>>]) : v \in {text}})

\* whether Path.read_text(encoding='utf-8') returns rather than raises
Readable(bytes) == ValidUtf8(bytes)

\* Path.read_text(encoding='utf-8', errors='replace'), and what
\* Path.read_text(encoding='utf-8') returns when it returns
read_text(bytes) == UniversalNewlines(DecodeUtf8(bytes))

\* what tmpf.write(content) puts on disk: os.linesep is LF, so only the
\* encoding acts
EncodeUtf8(text) ==
  TheOnly({Join([i \in DOMAIN v |->
                   IF v[i] = REPLACEMENT THEN ReplacementBytes ELSE <<v[i]>>]) : v \in {text}})

(* ---------------------------- collect_files ---------------------------- *)
RECURSIVE CollectFrom(_, _)
\* the loop over the sorted paths: (rel, data) of every file that ends in
\* .sl or .swz
CollectFrom(paths, t) ==
  IF paths = <<>> THEN <<>>
  ELSE LET p == Head(paths)
       IN  (IF p \in DOMAIN t /\ (Suffix(p) = ExtSl \/ Suffix(p) = ExtSwz)
            THEN << <<AsPosix(p), read_text(t[p])>> >>
            ELSE <<>>)
           \o CollectFrom(Tail(paths), t)

\* collect_files with the enumerated paths left in the order the operating
\* system gave them
collect_files_unsorted(exists, t, listing) ==
  IF ~exists THEN <<>> ELSE CollectFrom(listing, t)

\* collect_files, given whether lib_dir exists, the tree under it and the
\* order in which rglob enumerates it
collect_files(exists, t, listing) ==
  IF ~exists THEN <<>> ELSE CollectFrom(sorted(listing), t)

(* --------------------------- generate_content -------------------------- *)
\* The fixed lines of the document.  Each line's text holds no line break,
\* quote or backslash that matters below and stands as one code point under
\* 32; the line feeds between them are real.
\*   1  // GENERATED FILE - do not edit. Regenerate with scripts/embed_builtins.py
\*   2  #include "builtin_sl.h"
\*   3  #include <unordered_map>      4  #include <string>
\*   5  #include <optional>           6  using namespace std;
\*   7  static unordered_map<string,string> __embedded_modules = {
Preamble == <<1, LF, 2, LF, 3, LF, 4, LF, 5, LF, LF, 6, LF, LF, 7, LF>>
\*   8  };
TableClose == <<8, LF, LF>>
\*   9  bool has_embedded_module(const std::string &spec) {
\*   11     return __embedded_modules.find(spec) != __embedded_modules.end();
\*   12 }
HasFunction == <<9, LF, 11, LF, 12, LF, LF>>
\*   14 std::optional<std::string> get_embedded_module_source(const std::string &spec) {
\*   15     auto it = __embedded_modules.find(spec);
\*   16     if (it == __embedded_modules.end()) return std::nullopt;
\*   17     return it->second;
\*   12 }
GetFunction == <<14, LF, 15, LF, 16, LF, 17, LF, 12, LF>>

\* rel.rsplit('.', 1)[0]
NoExt(rel) ==
  LET dots == Positions(rel, DOT)
  IN  IF dots = {} THEN rel ELSE SubSeq(rel, 1, Max(dots) - 1)

\* RowsOf with the namespace tag left off the third key
RowsOfUntagged(pair) ==
  LET rel == pair[1]
      escaped == cpp_escape(pair[2])
  IN  << <<rel, escaped>> >>
      \o (IF EndsWith(rel, ExtSl) \/ EndsWith(rel, ExtSwz)
          THEN << <<NoExt(rel), escaped>>, <<NoExt(rel), escaped>> >>
          ELSE <<>>)

\* the (key, escaped content) rows of one pair, the content escaped once
RowsOf(pair) ==
  LET rel == pair[1]
      escaped == cpp_escape(pair[2])
  IN  << <<rel, escaped>> >>
      \o (IF EndsWith(rel, ExtSl) \/ EndsWith(rel, ExtSwz)
          THEN << <<NoExt(rel), escaped>>, <<SwaziTag \o NoExt(rel), escaped>> >>
          ELSE <<>>)

RECURSIVE Rows(_)
\* the rows of the table, in the order they are emitted
Rows(pairs) == IF pairs = <<>> THEN <<>> ELSE RowsOf(Head(pairs)) \o Rows(Tail(pairs))

\* f'    {{ "{key}", "{esc}" }},\n'
RenderRow(row) ==
  <<SPACE, SPACE, SPACE, SPACE, 123, SPACE, QUOTE>> \o row[1]
  \o <<QUOTE, 44, SPACE, QUOTE>> \o row[2] \o <<QUOTE, SPACE, 125, 44, LF>>

RECURSIVE RenderRows(_)
RenderRows(rows) ==
  IF rows = <<>> THEN <<>> ELSE RenderRow(Head(rows)) \o RenderRows(Tail(rows))

\* generate_content: the text of the document
generate_content(pairs) ==
  Join(<<Preamble, RenderRows(Rows(pairs)), TableClose, HasFunction, GetFunction>>)

(* ------------- the table the host program builds from the rows -------- *)
\* whether the host compiler accepts every literal of the rows
WellFormed(rows) ==
  \A i \in DOMAIN rows : CppDecode(rows[i][1]) # Malformed /\ CppDecode(rows[i][2]) # Malformed

\* the keys of the initializer list, as the host reads the literals
KeysOf(rows) == {CppDecode(rows[i][1]) : i \in DOMAIN rows}

\* the contents the rows give for a key, as the host reads the literals
ValuesOf(rows, key) ==
  {CppDecode(rows[i][2]) : i \in {j \in DOMAIN rows : CppDecode(rows[j][1]) = key}}

RECURSIVE Resolutions(_, _)
\* every map over the keys that takes each key's value from one of its rows
Resolutions(rows, keys) ==
  IF keys = {} THEN {<<>>}
  ELSE LET k == CHOOSE x \in keys : TRUE
       IN  {(k :> v) @@ f : v \in ValuesOf(rows, k), f \in Resolutions(rows, keys \ {k})}

\* unordered_map<string,string> built from an initializer list: keys are
\* unique in the map; of the rows that share a key the standard leaves
\* unspecified which one is inserted
EmbeddedModules(rows) == Resolutions(rows, KeysOf(rows))

(* ------------------------------- state -------------------------------- *)
VARIABLES
  \* cpp_escape on its own: the content, its escaped form, the host's reading
  s, esc, dec, epc,
  \* the file system: lib_dir, the target out_cpp, its directory
  libExists, tree, target, targetReadable, parentExists, tmpfiles,
  \* main(): which run, where it is, and its locals
  run, pc, listing, osSorted, pairs, docs, table, exitCode, history,
  \* atomic_write_if_changed, per process running it
  given, wpc, tmpname, pending, ret, fault, effects, pre

escVars == <<s, esc, dec, epc>>
fsVars == <<libExists, tree, target, targetReadable, parentExists, tmpfiles>>
mainVars == <<run, pc, listing, osSorted, pairs, docs, table, exitCode, history>>
writerVars == <<given, wpc, tmpname, pending, ret, fault, effects, pre>>
vars == <<escVars, fsVars, mainVars, writerVars>>

\* a path that holds no file
Absent == <<-1>>

\* the processes that may run the Writer, and the names mkstemp may draw
Procs == {1, 2}
TmpPool == 2
TmpNames == 1..TmpPool

(* --------------------------- idle components --------------------------- *)
EscIdle == s = <<>> /\ esc = <<>> /\ dec = <<>> /\ epc = "idle"

MainIdle ==
  /\ run = 1 /\ pc = "idle" /\ listing = <<>> /\ osSorted = <<TRUE, TRUE>>
  /\ pairs = <<>> /\ docs = <<>> /\ table = <<>> /\ exitCode = -1 /\ history = <<>>

TreeIdle == libExists = FALSE /\ tree = <<>>

WriterIdle ==
  /\ given = [i \in Procs |-> <<>>]
  /\ wpc = [i \in Procs |-> "idle"]
  /\ tmpname = [i \in Procs |-> 0]
  /\ pending = [i \in Procs |-> "none"]
  /\ ret = [i \in Procs |-> "none"]
  /\ fault = [i \in Procs |-> "none"]
  /\ effects = [i \in Procs |-> {}]

TargetIdle ==
  /\ target = Absent /\ targetReadable = TRUE /\ parentExists = TRUE
  /\ tmpfiles = [n \in TmpNames |-> Absent]
  /\ pre = Absent

(* ---------------------- cpp_escape exercised alone --------------------- *)
\* backslash, quote, carriage return, line feed and the ordinary character n
EscAlphabet == {BSL, QUOTE, CR, LF, LowerN}

Strings == UNION {[1..k -> EscAlphabet] : k \in 0..MaxLen}

InitEsc ==
  /\ s \in Strings /\ esc = <<>> /\ dec = <<>> /\ epc = "input"
  /\ TreeIdle /\ TargetIdle /\ MainIdle /\ WriterIdle

\* esc = cpp_escape(data)
DoEscape ==
  /\ epc = "input"
  /\ esc' = cpp_escape(s)
  /\ epc' = "escaped"
  /\ UNCHANGED <<s, dec, fsVars, mainVars, writerVars>>

\* the host compiler reads "{esc}"
DoDecode ==
  /\ epc = "escaped"
  /\ dec' = CppDecode(esc)
  /\ epc' = "decoded"
  /\ UNCHANGED <<s, esc, fsVars, mainVars, writerVars>>

NextEsc == DoEscape \/ DoDecode

SpecEsc == InitEsc /\ [][NextEsc]_vars

(* ------------------- collect_files and generate_content ---------------- *)
\* lib_dir.rglob('*'): the operating system hands out the entries in an
\* order of its own
Rglob ==
  /\ pc = "start" /\ libExists
  /\ \E o \in Orders(Entries(tree)) :
       /\ listing' = o
       /\ osSorted' = [osSorted EXCEPT ![run] = (o = sorted(o))]
  /\ pc' = "listed"
  /\ UNCHANGED <<run, pairs, docs, table, exitCode, history>>
  /\ UNCHANGED <<escVars, fsVars, writerVars>>

\* pairs = collect_files(lib_dir)
Collect ==
  /\ pc = "listed" \/ (pc = "start" /\ ~libExists)
  /\ pairs' = collect_files(libExists, tree, listing)
  /\ listing' = <<>>
  /\ pc' = "collected"
  /\ UNCHANGED <<run, osSorted, docs, table, exitCode, history>>
  /\ UNCHANGED <<escVars, fsVars, writerVars>>

\* content = generate_content(pairs)
Generate ==
  /\ pc = "collected"
  /\ docs' = Append(docs, generate_content(pairs))
  /\ pc' = "generated"
  /\ UNCHANGED <<run, listing, osSorted, pairs, table, exitCode, history>>
  /\ UNCHANGED <<escVars, fsVars, writerVars>>

\* the host program is built from the document and constructs its table
LoadTable ==
  /\ pc = "generated" /\ WellFormed(Rows(pairs))
  /\ table' \in EmbeddedModules(Rows(pairs))
  /\ pc' = "loaded"
  /\ UNCHANGED <<run, listing, osSorted, pairs, docs, exitCode, history>>
  /\ UNCHANGED <<escVars, fsVars, writerVars>>

\* the host compiler rejects a document that holds a malformed literal
BuildFails ==
  /\ pc = "generated" /\ ~WellFormed(Rows(pairs))
  /\ pc' = "rejected"
  /\ UNCHANGED <<run, listing, osSorted, pairs, docs, table, exitCode, history>>
  /\ UNCHANGED <<escVars, fsVars, writerVars>>

\* an independent second run over the same tree
Rerun ==
  /\ pc \in {"loaded", "rejected"} /\ run = 1
  /\ run' = 2
  /\ pc' = "start"
  /\ pairs' = <<>>
  /\ table' = <<>>
  /\ UNCHANGED <<listing, osSorted, docs, exitCode, history>>
  /\ UNCHANGED <<escVars, fsVars, writerVars>>

InitGen ==
  /\ libExists \in BOOLEAN
  /\ tree \in (IF libExists THEN Trees ELSE {<<>>})
  /\ run = 1 /\ pc = "start" /\ listing = <<>> /\ osSorted = <<TRUE, TRUE>>
  /\ pairs = <<>> /\ docs = <<>> /\ table = <<>> /\ exitCode = -1 /\ history = <<>>
  /\ EscIdle /\ TargetIdle /\ WriterIdle

NextGen == Rglob \/ Collect \/ Generate \/ LoadTable \/ BuildFails \/ Rerun

SpecGen == InitGen /\ [][NextGen]_vars

(* ----------------------- atomic_write_if_changed ----------------------- *)
\* the documents handed to the Writer when it is run on its own:
\*   d LF  |  e LF  |  d CR LF
Docs == {<<100, LF>>, <<101, LF>>, <<100, CR, LF>>}

\* a file whose one byte is no UTF-8
Undecodable == <<255>>

\* what the target may hold before a run: nothing, the bytes of a document,
\* or bytes that are no UTF-8
Priors == {Absent} \cup {EncodeUtf8(d) : d \in Docs} \cup {Undecodable}

\* the first k bytes of a file
Prefix(bytes, k) == SubSeq(bytes, 1, k)

\* process i has reached the step named at
At(i, at) == wpc[i] = at

Goto(i, at) == wpc' = [wpc EXCEPT ![i] = at]

Did(i, what) == effects' = [effects EXCEPT ![i] = @ \cup what]

\* path.parent.mkdir(parents=True, exist_ok=True)
MkDir(i) ==
  /\ At(i, "mkdir")
  /\ parentExists' = TRUE
  /\ Goto(i, "exists")
  /\ UNCHANGED <<libExists, tree, target, targetReadable, tmpfiles>>
  /\ UNCHANGED <<given, tmpname, pending, ret, fault, effects, pre>>
  /\ UNCHANGED <<escVars, mainVars>>

\* if path.exists():
Exists(i) ==
  /\ At(i, "exists")
  /\ Goto(i, IF target # Absent THEN "read" ELSE "mkstemp")
  /\ UNCHANGED <<given, tmpname, pending, ret, fault, effects, pre>>
  /\ UNCHANGED <<escVars, fsVars, mainVars>>

\* existing = path.read_text(encoding='utf-8'); return False if it equals
\* content; an exception while reading falls through to the write
ReadExisting(i) ==
  /\ At(i, "read")
  /\ LET ok == target # Absent /\ targetReadable /\ Readable(target)
     IN  IF ok /\ read_text(target) = given[i]
         THEN /\ ret' = [ret EXCEPT ![i] = "False"]
              /\ Goto(i, "returned")
              /\ UNCHANGED effects
         ELSE /\ Goto(i, "mkstemp")
              /\ Did(i, IF ok THEN {} ELSE {"readfail"})
              /\ UNCHANGED ret
  /\ UNCHANGED <<given, tmpname, pending, fault, pre>>
  /\ UNCHANGED <<escVars, fsVars, mainVars>>

\* fd, tmpname = tempfile.mkstemp(prefix=path.name, dir=str(path.parent)):
\* a new empty file under a name no file holds
MkStemp(i) ==
  /\ At(i, "mkstemp") /\ parentExists
  /\ \E n \in TmpNames :
       /\ tmpfiles[n] = Absent
       /\ tmpfiles' = [tmpfiles EXCEPT ![n] = <<>>]
       /\ tmpname' = [tmpname EXCEPT ![i] = n]
  /\ Goto(i, "write")
  /\ Did(i, {"mkstemp"})
  /\ UNCHANGED <<libExists, tree, target, targetReadable, parentExists>>
  /\ UNCHANGED <<given, pending, ret, fault, pre>>
  /\ UNCHANGED <<escVars, mainVars>>

\* with os.fdopen(fd, 'w', encoding='utf-8') as tmpf: tmpf.write(content)
\* The bytes go to the file the descriptor holds, which is the one under
\* tmpname unless that name has been unlinked meanwhile.
WriteTmp(i) ==
  /\ At(i, "write")
  /\ tmpfiles' = IF tmpfiles[tmpname[i]] = Absent THEN tmpfiles
                 ELSE [tmpfiles EXCEPT ![tmpname[i]] = EncodeUtf8(given[i])]
  /\ Goto(i, "replace")
  /\ UNCHANGED <<libExists, tree, target, targetReadable, parentExists>>
  /\ UNCHANGED <<given, tmpname, pending, ret, fault, effects, pre>>
  /\ UNCHANGED <<escVars, mainVars>>

\* os.replace(tmpname, str(path)); print; return True.  The rename is atomic;
\* it raises FileNotFoundError when nothing is under tmpname.
ReplaceTarget(i) ==
  /\ At(i, "replace")
  /\ IF tmpfiles[tmpname[i]] = Absent
     THEN /\ pending' = [pending EXCEPT ![i] = "raised"]
          /\ UNCHANGED <<target, targetReadable, tmpfiles, effects>>
     ELSE /\ target' = tmpfiles[tmpname[i]]
          /\ targetReadable' = TRUE
          /\ tmpfiles' = [tmpfiles EXCEPT ![tmpname[i]] = Absent]
          /\ pending' = [pending EXCEPT ![i] = "True"]
          /\ Did(i, {"replace"})
  /\ Goto(i, "finally")
  /\ UNCHANGED <<libExists, tree, parentExists>>
  /\ UNCHANGED <<given, tmpname, ret, fault, pre>>
  /\ UNCHANGED <<escVars, mainVars>>

\* the finally clause without its unlink
CleanupForgotten(i) ==
  /\ At(i, "finally")
  /\ ret' = [ret EXCEPT ![i] = pending[i]]
  /\ Goto(i, IF pending[i] = "raised" THEN "raised" ELSE "returned")
  /\ UNCHANGED <<given, tmpname, pending, fault, effects, pre>>
  /\ UNCHANGED <<escVars, fsVars, mainVars>>

\* finally: if os.path.exists(tmpname): os.unlink(tmpname); then the return
\* value or the exception goes to the caller
Cleanup(i) ==
  /\ At(i, "finally")
  /\ tmpfiles' = [tmpfiles EXCEPT ![tmpname[i]] = Absent]
  /\ Did(i, IF tmpfiles[tmpname[i]] # Absent THEN {"unlink"} ELSE {})
  /\ ret' = [ret EXCEPT ![i] = pending[i]]
  /\ Goto(i, IF pending[i] = "raised" THEN "raised" ELSE "returned")
  /\ UNCHANGED <<libExists, tree, target, targetReadable, parentExists>>
  /\ UNCHANGED <<given, tmpname, pending, fault, pre>>
  /\ UNCHANGED <<escVars, mainVars>>

\* the write to the temporary file raises (disk full, I/O error) after some
\* of the bytes, or all or none of them, have reached the file
FailWrite(i) ==
  /\ At(i, "write") /\ tmpfiles[tmpname[i]] # Absent
  /\ \E k \in 0..Len(EncodeUtf8(given[i])) :
       tmpfiles' = [tmpfiles EXCEPT ![tmpname[i]] = Prefix(EncodeUtf8(given[i]), k)]
  /\ pending' = [pending EXCEPT ![i] = "raised"]
  /\ fault' = [fault EXCEPT ![i] = "write"]
  /\ Goto(i, "finally")
  /\ UNCHANGED <<libExists, tree, target, targetReadable, parentExists>>
  /\ UNCHANGED <<given, tmpname, ret, effects, pre>>
  /\ UNCHANGED <<escVars, mainVars>>

\* os.replace raises and renames nothing
FailReplace(i) ==
  /\ At(i, "replace") /\ tmpfiles[tmpname[i]] # Absent
  /\ pending' = [pending EXCEPT ![i] = "raised"]
  /\ fault' = [fault EXCEPT ![i] = "replace"]
  /\ Goto(i, "finally")
  /\ UNCHANGED <<given, tmpname, ret, effects, pre>>
  /\ UNCHANGED <<escVars, fsVars, mainVars>>

\* atomic_write_if_changed(path, content) run by process i, step by step,
\* when nothing fails under it
atomic_write_if_changed(i) ==
  \/ MkDir(i) \/ Exists(i) \/ ReadExisting(i) \/ MkStemp(i)
  \/ WriteTmp(i) \/ ReplaceTarget(i) \/ Cleanup(i)

\* the states of the target and its directory before a run
InitTarget ==
  /\ target \in Priors
  /\ targetReadable \in (IF target = Absent THEN {TRUE} ELSE BOOLEAN)
  /\ parentExists \in (IF target = Absent THEN BOOLEAN ELSE {TRUE})
  /\ tmpfiles = [n \in TmpNames |-> Absent]
  /\ pre = target

\* the given processes are about to run the Writer, each on a document
InitWriters(running) ==
  /\ given \in {g \in [Procs -> Docs \cup {<<>>}] : \A i \in Procs : g[i] = <<>> <=> i \notin running}
  /\ wpc = [i \in Procs |-> IF i \in running THEN "mkdir" ELSE "idle"]
  /\ tmpname = [i \in Procs |-> 0]
  /\ pending = [i \in Procs |-> "none"]
  /\ ret = [i \in Procs |-> "none"]
  /\ fault = [i \in Procs |-> "none"]
  /\ effects = [i \in Procs |-> {}]

(* ---- the Writer run once, with failures of the write and the rename ---- *)
InitWriter == InitTarget /\ InitWriters({1}) /\ EscIdle /\ TreeIdle /\ MainIdle

NextWriter == \E i \in Procs : atomic_write_if_changed(i) \/ FailWrite(i) \/ FailReplace(i)

SpecWriter == InitWriter /\ [][NextWriter]_vars

(* --------- two instances of the Writer run on the same target ---------- *)
InitConc == InitTarget /\ InitWriters(Procs) /\ EscIdle /\ TreeIdle /\ MainIdle

NextConc == \E i \in Procs : atomic_write_if_changed(i)

SpecConc == InitConc /\ [][NextConc]_vars

(* ------------------------- main(), run twice --------------------------- *)
\* a file of LF-ended lines as it is with CR LF line endings
WithCRLF(bytes) == Replace(bytes, LF, <<CR, LF>>)

\* the bytes of some other, older document:  s LF
Stale == <<115, LF>>

\* the document the generator makes of a tree
DocumentOf(exists, t) ==
  generate_content(collect_files(exists, t, CHOOSE o \in Orders(Entries(t)) : TRUE))

\* what out_cpp may hold before the first run: nothing, an older document, or
\* the tree's document with CR LF line endings
InitMain ==
  /\ libExists \in BOOLEAN
  /\ tree \in (IF libExists THEN Trees ELSE {<<>>})
  /\ target \in {Absent, Stale, WithCRLF(EncodeUtf8(DocumentOf(libExists, tree)))}
  /\ targetReadable = TRUE
  /\ parentExists = (target # Absent)
  /\ tmpfiles = [n \in TmpNames |-> Absent]
  /\ pre = target
  /\ run = 1 /\ pc = "start" /\ listing = <<>> /\ osSorted = <<TRUE, TRUE>>
  /\ pairs = <<>> /\ docs = <<>> /\ table = <<>> /\ exitCode = -1 /\ history = <<>>
  /\ EscIdle /\ WriterIdle

\* changed = atomic_write_if_changed(out_cpp, content): the call
CallWriter ==
  /\ pc = "generated"
  /\ pc' = "writing"
  /\ given' = [given EXCEPT ![1] = docs[run]]
  /\ wpc' = [wpc EXCEPT ![1] = "mkdir"]
  /\ pre' = target
  /\ UNCHANGED <<tmpname, pending, ret, fault, effects>>
  /\ UNCHANGED <<run, listing, osSorted, pairs, docs, table, exitCode, history>>
  /\ UNCHANGED <<escVars, fsVars>>

\* sys.exit(0) after the Writer returned, whatever it returned; an exception
\* out of the Writer ends the process with status 1
Exit ==
  /\ pc = "writing" /\ wpc[1] \in {"returned", "raised"}
  /\ exitCode' = IF wpc[1] = "raised" THEN 1 ELSE 0
  /\ history' = Append(history, [ret |-> ret[1], target |-> target, effects |-> effects[1]])
  /\ pc' = "exited"
  /\ UNCHANGED <<run, listing, osSorted, pairs, docs, table>>
  /\ UNCHANGED <<escVars, fsVars, writerVars>>

\* the generator is run again, the inputs unchanged
NextRun ==
  /\ pc = "exited" /\ run = 1
  /\ run' = 2
  /\ pc' = "start"
  /\ pairs' = <<>>
  /\ exitCode' = -1
  /\ given' = [i \in Procs |-> <<>>]
  /\ wpc' = [i \in Procs |-> "idle"]
  /\ tmpname' = [i \in Procs |-> 0]
  /\ pending' = [i \in Procs |-> "none"]
  /\ ret' = [i \in Procs |-> "none"]
  /\ effects' = [i \in Procs |-> {}]
  /\ UNCHANGED <<fault, pre>>
  /\ UNCHANGED <<listing, osSorted, docs, table, history>>
  /\ UNCHANGED <<escVars, fsVars>>

\* main(): collect, generate, write, exit
main ==
  \/ Rglob \/ Collect \/ Generate \/ CallWriter
  \/ atomic_write_if_changed(1)
  \/ Exit

Next == main \/ NextRun

Spec == InitMain /\ [][Next]_vars

(* ============================== claims ================================ *)
\* a string with its carriage returns removed
StripCR(str) == SelectSeq(str, LAMBDA c : c # CR)

\* string a is before string b lexicographically, by code point: they agree
\* up to a place where a has ended or has the smaller character
StringLt(a, b) ==
  \E k \in 1..Len(b) :
    /\ \A j \in 1..(k - 1) : j <= Len(a) /\ a[j] = b[j]
    /\ k = Len(a) + 1 \/ (k <= Len(a) /\ a[k] < b[k])

\* component list p is before component list q lexicographically, the
\* components compared as strings
ComponentsLt(p, q) ==
  \E k \in 1..Len(q) :
    /\ \A j \in 1..(k - 1) : j <= Len(p) /\ p[j] = q[j]
    /\ k = Len(p) + 1 \/ (k <= Len(p) /\ StringLt(p[k], q[k]))

RECURSIVE SplitFrom(_, _, _)
SplitFrom(rel, cur, acc) ==
  IF rel = <<>> THEN Append(acc, cur)
  ELSE IF Head(rel) = SLASH THEN SplitFrom(Tail(rel), <<>>, Append(acc, cur))
  ELSE SplitFrom(Tail(rel), Append(cur, Head(rel)), acc)

\* the components of a forward-slash separated relative path
SplitPath(rel) == SplitFrom(rel, <<>>, <<>>)

\* the files of the tree with a recognized extension
Recognized(t) ==
  {p \in DOMAIN t : EndsWith(Name(p), ExtSl) \/ EndsWith(Name(p), ExtSwz)}

\* a relative path with its .sl or .swz taken off
Stem(rel) ==
  SubSeq(rel, 1, Len(rel) - (IF EndsWith(rel, ExtSwz) THEN Len(ExtSwz) ELSE Len(ExtSl)))

\* the three keys of a file: R, R without extension, swazi:<R without extension>
KeysFor(p) == {AsPosix(p), Stem(AsPosix(p)), SwaziTag \o Stem(AsPosix(p))}

\* the recognized files of the tree that derive key k
Derivers(t, k) == {p \in Recognized(t) : k \in KeysFor(p)}

\* the text of a file as the Collector reads it: decoded, line endings as LF
TextOf(t, p) == read_text(t[p])

(* ---- C4 ---- *)
\* C4: decoding "cpp_escape(content)" by the host's literal rules yields the
\* content with every carriage return removed and every other character kept
\* in order.
C4_EscapeRoundTrip == epc = "decoded" => dec = StripCR(s)

\* a content with backslash, quote, CR and LF has been escaped and decoded
C4_Witness ==
  /\ epc = "decoded"
  /\ {BSL, QUOTE, CR, LF} \subseteq {s[i] : i \in DOMAIN s}
  /\ dec # s

(* ---- C5 ---- *)
\* C5: two runs over the same tree produce the same document text, whatever
\* the orders in which the operating system enumerated the entries.
C5_Deterministic == Len(docs) = 2 => docs[1] = docs[2]

\* two runs done over a tree of several files, one enumerated in sorted order
\* and the other not
C5_Witness ==
  /\ Len(docs) = 2
  /\ osSorted[1] # osSorted[2]
  /\ Len(pairs) >= 2

(* ---- C8 ---- *)
\* C8 as stated: the collected sequence is ascending in the lexicographic
\* order of the full relative path strings.
C8_ByPathString ==
  pc = "collected" =>
    \A i \in 1..(Len(pairs) - 1) : StringLt(pairs[i][1], pairs[i + 1][1])

\* C8 amended: the collected sequence is ascending in the lexicographic order
\* of the paths' component lists, each component compared as a string.
C8_ByComponents ==
  pc = "collected" =>
    \A i \in 1..(Len(pairs) - 1) :
      ComponentsLt(SplitPath(pairs[i][1]), SplitPath(pairs[i + 1][1]))

\* collected: two files whose path strings are in the opposite order
C8_Witness ==
  /\ pc = "collected"
  /\ \E i \in 1..(Len(pairs) - 1) : StringLt(pairs[i + 1][1], pairs[i][1])

LastDeriver(k) ==
  Max({i \in DOMAIN pairs :
         k \in {pairs[i][1], Stem(pairs[i][1]), SwaziTag \o Stem(pairs[i][1])}})

\* C9: a key that several files derive maps to the content of the file
\* discovered last.
C9_LastWriteWins ==
  pc = "loaded" => \A k \in DOMAIN table : table[k] = pairs[LastDeriver(k)][2]

(* ---- C1 ---- *)
\* the processes that run the Writer
Running == {i \in Procs : wpc[i] # "idle"}

C10_WriterPostcondition ==
  \A i \in Running :
    /\ ret[i] \in {"True", "False"} => target = EncodeUtf8(given[i])
    /\ ret[i] = "False" => pre = EncodeUtf8(given[i]) /\ "replace" \notin effects[i]
    /\ ret[i] = "True" => "replace" \in effects[i]
    /\ ("readfail" \in effects[i] /\ ret[i] \in {"True", "False"}) => ret[i] = "True"

(* ---- C6 ---- *)
\* C6: with two instances on one target, the target never holds a partial
\* document, and once both have finished it holds the document of one of
\* the two.
C6_ConcurrentRuns ==
  /\ target \in {pre} \cup {EncodeUtf8(given[i]) : i \in Procs}
  /\ (\A i \in Procs : wpc[i] \in {"returned", "raised"})
       => target \in {EncodeUtf8(given[i]) : i \in Procs}

(* ---- C2 ---- *)
\* C2: the second of two successive runs over unchanged inputs creates no
\* temporary file, replaces nothing, returns False, and leaves the target's
\* bytes as they were after the first run.
C2_Idempotent ==
  (run = 2 /\ pc = "exited") =>
    /\ history[2].ret = "False"
    /\ history[2].effects \cap {"mkstemp", "replace"} = {}
    /\ history[2].target = history[1].target

(* ---- C7 ---- *)
\* C7: with no lib_dir the run collects nothing, the document is the fixed
\* text around an empty table, the target holds that document afterwards,
\* and the exit code is 0.
C7_EmptyInput ==
  (~libExists /\ pc = "exited") =>
    /\ pairs = <<>>
    /\ KeysOf(Rows(pairs)) = {}
    /\ docs[run] = Preamble \o TableClose \o HasFunction \o GetFunction
    /\ target = EncodeUtf8(docs[run])
    /\ exitCode = 0

====
